---- MODULE Spec2Model ----
(***************************************************************************)
(* Recipe API of the cookbook backend (src/backend/index.js).              *)
(*                                                                         *)
(* The module models two generations of the service that the repository    *)
(* holds:                                                                  *)
(*   - the refactored service (index.js lines 1-186), which reads and      *)
(*     writes through a storage backend           -> specification Spec    *)
(*   - the earlier service (index.js lines 188-380), which assigns ids and *)
(*     validates updates with validateRecipe      -> specification         *)
(*     SpecEarlier                                                         *)
(*                                                                         *)
(* JavaScript values are tagged records: a string is a sequence of         *)
(* characters, an array a sequence of strings, anything else a number.     *)
(* A JavaScript object is a function from the keys it owns to values.      *)
(*                                                                         *)
(* The storage backends the service reads and writes through             *)
(* (fileStorage.js, dbStorage.js) are modelled step by step, one step per  *)
(* awaited call, together with the service's getRecipes on top of them     *)
(*                                                -> specification         *)
(*                                                   SpecStorage           *)
(* and validateRecipe, which the module exports, is applied to the         *)
(* objects a caller can hand it                   -> specification         *)
(*                                                   SpecValidate          *)
(*                                                                         *)
(* A handler is an operator from the persisted collection, its arguments   *)
(* and the outcome of the backend's write to what it leaves behind: the    *)
(* collection, the value returned, the return statement reached and        *)
(* whether the backend was asked to write.  The actions apply the handlers *)
(* to the state.                                                           *)
(***************************************************************************)
EXTENDS Integers, Sequences, FiniteSets, TLC

VARIABLES
    store,  \* the persisted collection (recipes.json / the recipes collection)
    op,     \* the operation that ran last: "none", "add", "update", "delete"
    exit,   \* the return statement that operation left by
    ret,    \* what the operation gave its caller: "true", "false", "throw"
    wrote,  \* TRUE iff that operation called the backend's saveRecipes
    foreign, \* the keys outside the schema that operation's object argument had
    disk,   \* the backing file of the file backend
    db,     \* the documents of the database backend's collection
    call,   \* the backend call in progress or last made: backend, fn, arg
    pc,     \* the position of that call
    result, \* the value that call is about to give or gave its caller
    closes, \* the number of times that call invoked close on the client
    listed, \* what the service gave its caller after that call
    fault,  \* the step of that call that failed, "none" if none has
    atCall, \* what the file and the database held when that call began
    persisted, \* per backend, the collection of the last saveRecipes that
            \* returned true, Undefined once another saveRecipes has begun
    validation, \* the last call of validateRecipe: its arguments and its result
    useDb,  \* process.env.USE_DB === "true": the backend the service requires
    client, \* the one MongoClient of DBStorage: "open" or "closed"
    procs   \* per concurrent caller of addRecipe: its position, its argument,
            \* the collection it read, the collection it saves, the value
            \* pending in the backend call, and what it was given

serviceVars == <<store, op, exit, ret, wrote, foreign>>
storageVars ==
    <<disk, db, call, pc, result, closes, listed, fault, atCall, persisted>>
vars == <<store, op, exit, ret, wrote, foreign,
          disk, db, call, pc, result, closes, listed, fault, atCall, persisted,
          validation, useDb, client, procs>>
raceVars == <<useDb, client, procs>>

----------------------------------------------------------------------------
(* Bounds of the model *)

\* the longest collection an add may extend
MaxRecipes == 2
\* how many keys of an add candidate may be missing, wrongly typed or foreign
MaxFaults == 1
\* how many keys an update's partial recipe may carry
MaxPartialKeys == 1
\* how many addRecipe calls are in progress at once
MaxCallers == 2

----------------------------------------------------------------------------
(* JavaScript values *)

Str(s) == [t |-> "string", s |-> s, n |-> 0]
Arr(a) == [t |-> "array", s |-> a, n |-> 0]
Num(n) == [t |-> "number", s |-> <<>>, n |-> n]
\* stands for "the key is not there" while an input object is being built
Absent == [t |-> "absent", s |-> <<>>, n |-> 0]

\* Null is what validateRecipe returns for a rejected recipe
Null == [isNull |-> TRUE]

\* the other values that JSON.parse or a backend can yield
JsNull == [t |-> "null", s |-> <<>>, n |-> 0]
JsObject == [t |-> "object", s |-> <<>>, n |-> 0]
Undefined == [t |-> "undefined", s |-> <<>>, n |-> 0]
True == [t |-> "boolean", s |-> <<>>, n |-> 1]
False == [t |-> "boolean", s |-> <<>>, n |-> 0]

\* typeof v === "string" and Array.isArray(v)
IsString(v) == v.t = "string"
IsArray(v) == v.t = "array"

\* obj.hasOwnProperty(key)
hasOwnProperty(obj, key) == key \in DOMAIN obj

\* { ...a, ...b }
Spread(a, b) ==
    [k \in (DOMAIN a) \cup (DOMAIN b) |-> IF k \in DOMAIN b THEN b[k] ELSE a[k]]

\* String.prototype.toLowerCase, character by character
LowerChar(c) ==
    CASE c = "A" -> "a"
      [] c = "B" -> "b"
      [] OTHER -> c

toLowerCase(s) == [i \in 1..Len(s) |-> LowerChar(s[i])]

\* String.prototype.trim: drop the leading and the trailing white space
RECURSIVE TrimStart(_)
TrimStart(s) ==
    IF s # <<>> /\ Head(s) = " " THEN TrimStart(Tail(s)) ELSE s

RECURSIVE TrimEnd(_)
TrimEnd(s) ==
    IF s # <<>> /\ s[Len(s)] = " " THEN TrimEnd(SubSeq(s, 1, Len(s) - 1)) ELSE s

trim(s) == TrimEnd(TrimStart(s))

\* name.trim().toLowerCase(), the comparison key of the refactored service
NormName(s) == toLowerCase(trim(s))

----------------------------------------------------------------------------
(* The schema *)

SchemaKeys == {"name", "ingredients", "instructions", "category", "tags"}

recipeSchema ==
    [name         |-> [type |-> "string", required |-> TRUE],
     ingredients  |-> [type |-> "array",  required |-> TRUE],
     instructions |-> [type |-> "string", required |-> TRUE],
     category     |-> [type |-> "string", required |-> FALSE],
     tags         |-> [type |-> "array",  required |-> FALSE]]

\* rule.type === "string" ? "" : []
ZeroOf(type) == IF type = "string" THEN Str(<<>>) ELSE Arr(<<>>)

\* the value's type is the one the rule asks for
TypeMatches(rule, v) ==
    \/ rule.type = "string" /\ IsString(v)
    \/ rule.type = "array" /\ IsArray(v)

\* the else branch of validateRecipe hands every key a value; the mutant
\* leaves out the keys the recipe does not have
validateRecipeNoDefault(recipe, isUpdate) ==
    IF \E key \in SchemaKeys :
           /\ ~hasOwnProperty(recipe, key)
           /\ recipeSchema[key].required
           /\ ~isUpdate
    THEN Null
    ELSE [key \in {k \in SchemaKeys : hasOwnProperty(recipe, k)} |->
             IF TypeMatches(recipeSchema[key], recipe[key])
             THEN recipe[key]
             ELSE ZeroOf(recipeSchema[key].type)]

\* validateRecipe(recipe, isUpdate) of the refactored service: Null when a
\* required key is missing on creation, else an object with every schema key
validateRecipe(recipe, isUpdate) ==
    IF \E key \in SchemaKeys :
           /\ ~hasOwnProperty(recipe, key)
           /\ recipeSchema[key].required
           /\ ~isUpdate
    THEN Null
    ELSE [key \in SchemaKeys |->
             IF hasOwnProperty(recipe, key)
             THEN IF TypeMatches(recipeSchema[key], recipe[key])
                  THEN recipe[key]
                  ELSE ZeroOf(recipeSchema[key].type)
             ELSE ZeroOf(recipeSchema[key].type)]

----------------------------------------------------------------------------
(* The inputs the operations are called with *)

NameA == <<"a">>
\* equal to NameA once trimmed and lower-cased, and only then
NameA2 == <<" ", "A", " ">>
NameB == <<"b">>

GoodIngredients == Arr(<<"flour">>)
GoodInstructions == Str(<<"m", "i", "x">>)
GoodCategory == Str(<<"p", "i", "e">>)
GoodTags == Arr(<<"vegan">>)
WrongType == Num(7)

InputKeys == SchemaKeys \cup {"maliciousField"}

\* the object that owns exactly the keys whose value is not Absent
MkObject(n, i, s, c, t, m) ==
    LET g == [name |-> n, ingredients |-> i, instructions |-> s,
              category |-> c, tags |-> t, maliciousField |-> m]
    IN [k \in {x \in InputKeys : g[x] # Absent} |-> g[k]]

AllObjects ==
    { MkObject(n, i, s, c, t, m) :
        n \in {Absent, Str(NameA), Str(NameA2), Str(NameB), WrongType},
        i \in {Absent, GoodIngredients, WrongType},
        s \in {Absent, GoodInstructions, WrongType},
        c \in {Absent, GoodCategory, WrongType},
        t \in {Absent, GoodTags, WrongType},
        m \in {Absent, Str(<<"x">>)} }

\* a key of the object that a well-formed new recipe would not have this way
IsFault(obj, k) ==
    IF k \in SchemaKeys
    THEN IF hasOwnProperty(obj, k)
         THEN ~TypeMatches(recipeSchema[k], obj[k])
         ELSE recipeSchema[k].required
    ELSE hasOwnProperty(obj, k)

\* the recipes handed to addRecipe
Candidates ==
    {obj \in AllObjects :
        Cardinality({k \in InputKeys : IsFault(obj, k)}) <= MaxFaults}

\* the partial recipes handed to updateRecipe
Partials ==
    {obj \in AllObjects : Cardinality(DOMAIN obj) <= MaxPartialKeys}

\* the names handed to updateRecipe and deleteRecipe
RecipeNames == {NameA, NameA2, NameB}

----------------------------------------------------------------------------
(* What a handler leaves behind *)

\* a return before any write: the collection stays as it is
Returned(file, where, value) ==
    [store |-> file, ret |-> value, exit |-> where, wrote |-> FALSE]

\* the mutant answers true whether the backend wrote or not
saveRecipesOptimistic(file, recipes, saveOk) ==
    [store |-> IF saveOk THEN recipes ELSE file,
     ret   |-> "true",
     exit  |-> "save",
     wrote |-> TRUE]

\* saveRecipes(recipes): the backend writes the whole collection and answers
\* true, or fails, leaves the collection as it was and answers false
saveRecipes(file, recipes, saveOk) ==
    [store |-> IF saveOk THEN recipes ELSE file,
     ret   |-> IF saveOk THEN "true" ELSE "false",
     exit  |-> "save",
     wrote |-> TRUE]

----------------------------------------------------------------------------
(* The refactored service, index.js lines 85-183 *)

\* the mutant hands on what the backend gave
ArrayAsGiven(data) == data

\* Array.isArray(data) ? data : []
ArrayOrEmpty(data) == IF IsArray(data) THEN data ELSE Arr(<<>>)

\* getRecipes(): the backend's collection; the backend of this specification
\* holds an array
getRecipes(file) == ArrayOrEmpty(Arr(file)).s

\* the mutant takes every stored recipe for the one that is named
SameNameAny(r, name) == TRUE

\* the mutant compares the names as they are
SameNameExact(r, name) == r["name"].s = name

\* r.name.trim().toLowerCase() === name.trim().toLowerCase()
SameName(r, name) == NormName(r["name"].s) = NormName(name)

\* the first index whose recipe matches, 0 for findIndex's -1
FindIndex(recipes, name) ==
    IF \E i \in 1..Len(recipes) : SameName(recipes[i], name)
    THEN CHOOSE i \in 1..Len(recipes) :
             /\ SameName(recipes[i], name)
             /\ \A j \in 1..(i - 1) : ~SameName(recipes[j], name)
    ELSE 0

\* the mutant removes the first recipe of that name only
FilterOutFirst(recipes, name) ==
    LET i == FindIndex(recipes, name)
    IN IF i = 0 THEN recipes
       ELSE SubSeq(recipes, 1, i - 1) \o SubSeq(recipes, i + 1, Len(recipes))

\* recipes.filter(r => the name of r is not the name given)
RECURSIVE FilterOut(_, _)
FilterOut(recipes, name) ==
    IF recipes = <<>> THEN <<>>
    ELSE IF SameName(Head(recipes), name)
         THEN FilterOut(Tail(recipes), name)
         ELSE <<Head(recipes)>> \o FilterOut(Tail(recipes), name)

\* recipe.name.trim() raises a TypeError unless recipe.name is a string; the
\* callback of some() runs only when the collection is not empty
AddThrows(recipes, recipe) ==
    /\ recipes # <<>>
    /\ ~(hasOwnProperty(recipe, "name") /\ IsString(recipe["name"]))

addRecipe(file, recipe, saveOk) ==
    LET recipes == getRecipes(file)
        duplicate ==
            \E i \in 1..Len(recipes) : SameName(recipes[i], recipe["name"].s)
        validatedRecipe == validateRecipe(recipe, FALSE)
    IN IF AddThrows(recipes, recipe)
       THEN Returned(file, "TypeError", "throw")
       ELSE IF recipes # <<>> /\ duplicate
       THEN Returned(file, "duplicate", "false")
       ELSE IF validatedRecipe = Null
       THEN Returned(file, "invalid", "false")
       ELSE saveRecipes(file, Append(recipes, validatedRecipe), saveOk)

\* the mutant merges the update as it came, as the first service did
allowedUpdatesUnfiltered(updatedRecipe) == updatedRecipe

\* the mutant validates the update as a recipe, defaults included, as the
\* earlier service did
allowedUpdatesDefaulted(updatedRecipe) == validateRecipe(updatedRecipe, TRUE)

\* the mutant replaces a value of the wrong type by the zero value of the
\* schema's type, as validateRecipe does for a new recipe
allowedUpdatesCoerced(updatedRecipe) ==
    [key \in {k \in SchemaKeys : hasOwnProperty(updatedRecipe, k)}
        |-> IF TypeMatches(recipeSchema[key], updatedRecipe[key])
            THEN updatedRecipe[key]
            ELSE ZeroOf(recipeSchema[key].type)]

\* the schema keys of the update whose value has the schema's type
allowedUpdates(updatedRecipe) ==
    [key \in {k \in SchemaKeys :
                 /\ hasOwnProperty(updatedRecipe, k)
                 /\ TypeMatches(recipeSchema[k], updatedRecipe[k])}
        |-> updatedRecipe[key]]

updateRecipe(file, recipeName, updatedRecipe, saveOk) ==
    LET recipes == getRecipes(file)
        idx == FindIndex(recipes, recipeName)
    IN IF idx = 0
       THEN Returned(file, "notfound", "false")
       ELSE saveRecipes(
                file,
                [recipes EXCEPT
                    ![idx] = Spread(recipes[idx], allowedUpdates(updatedRecipe))],
                saveOk)

deleteRecipe(file, recipeName, saveOk) ==
    LET recipes == getRecipes(file)
        filtered == FilterOut(recipes, recipeName)
    IN IF Len(filtered) = Len(recipes)
       THEN Returned(file, "notfound", "false")
       ELSE saveRecipes(file, filtered, saveOk)

----------------------------------------------------------------------------
(* The specification of the refactored service *)

\* the contents of the backing file: no file (or an unreadable one), text
\* that JSON.parse rejects, or text that parses to the value v
Missing == [kind |-> "missing", v |-> Undefined]
Malformed == [kind |-> "malformed", v |-> Undefined]
Json(v) == [kind |-> "json", v |-> v]

\* no backend call has been made
NoCall == [backend |-> "none", fn |-> "none", arg |-> <<>>]

\* no call of validateRecipe has been made
NoValidation ==
    [ran |-> FALSE, recipe |-> <<>>, isUpdate |-> FALSE, validated |-> Null]

\* the service has not run
ServiceAtRest ==
    /\ store = <<>>
    /\ op = "none"
    /\ exit = "none"
    /\ ret = "none"
    /\ wrote = FALSE
    /\ foreign = {}

\* the backends are not in a call
StorageAtRest ==
    /\ call = NoCall
    /\ pc = "idle"
    /\ result = Undefined
    /\ closes = 0
    /\ listed = Undefined
    /\ fault = "none"
    /\ persisted = [file |-> Undefined, db |-> Undefined]

\* what the file and the database hold
Contents == [disk |-> disk, db |-> db]

\* the concurrent callers of addRecipe
Callers == 1..MaxCallers

\* a caller that has not called
NotCalled ==
    [pc |-> "start", recipe |-> <<>>, recipes |-> <<>>, toSave |-> <<>>,
     pending |-> Undefined, ret |-> "none"]

\* no caller has called; the file backend is the one required
RaceAtRest ==
    /\ useDb = FALSE
    /\ client = "closed"
    /\ procs = [p \in Callers |-> NotCalled]

Init ==
    /\ ServiceAtRest
    /\ StorageAtRest
    /\ disk = Json(Arr(<<>>))
    /\ db = <<>>
    /\ atCall = Contents
    /\ validation = NoValidation
    /\ RaceAtRest

\* the operation ran on the state and left `after`; arg is its object argument
Ran(operation, left, arg) ==
    LET after == left
    IN /\ store' = after.store
       /\ op' = operation
       /\ exit' = after.exit
       /\ ret' = after.ret
       /\ wrote' = after.wrote
       /\ foreign' = (DOMAIN arg) \ SchemaKeys
       /\ UNCHANGED <<storageVars, validation, raceVars>>

\* the outcomes the backend's write can have in a handler that left `after`
\* when the write went well: none to choose when it never wrote
WriteOutcomes(after) == IF after.wrote THEN BOOLEAN ELSE {TRUE}

\* an add that would write extends the collection: it runs while the
\* collection is shorter than MaxRecipes
AddStep(recipe) ==
    LET written == addRecipe(store, recipe, TRUE)
    IN /\ written.wrote => Len(store) < MaxRecipes
       /\ \E saveOk \in WriteOutcomes(written) :
              Ran("add", addRecipe(store, recipe, saveOk), recipe)

UpdateStep(recipeName, updatedRecipe) ==
    LET written == updateRecipe(store, recipeName, updatedRecipe, TRUE)
    IN \E saveOk \in WriteOutcomes(written) :
           Ran("update", updateRecipe(store, recipeName, updatedRecipe, saveOk),
               updatedRecipe)

DeleteStep(recipeName) ==
    LET written == deleteRecipe(store, recipeName, TRUE)
    IN \E saveOk \in WriteOutcomes(written) :
           Ran("delete", deleteRecipe(store, recipeName, saveOk), <<>>)

Add == \E recipe \in Candidates : AddStep(recipe)

Update ==
    \E recipeName \in RecipeNames, updatedRecipe \in Partials :
        UpdateStep(recipeName, updatedRecipe)

Delete == \E recipeName \in RecipeNames : DeleteStep(recipeName)

Next == Add \/ Update \/ Delete

Spec == Init /\ [][Next]_vars

----------------------------------------------------------------------------
(* The earlier service, index.js lines 188-380 *)

\* validateRecipe of the earlier service: a first loop copies or coerces the
\* keys the recipe has, a second loop defaults every key still undefined
validateRecipeEarlier(recipe, isUpdate) ==
    LET copied ==
            [key \in {k \in SchemaKeys : hasOwnProperty(recipe, k)} |->
                IF recipeSchema[key].type = "array" /\ ~IsArray(recipe[key])
                THEN Arr(<<>>)
                ELSE IF recipeSchema[key].type = "string" /\ ~IsString(recipe[key])
                THEN Str(<<>>)
                ELSE recipe[key]]
        missingRequired ==
            \E key \in SchemaKeys :
                /\ ~hasOwnProperty(recipe, key)
                /\ recipeSchema[key].required
                /\ ~isUpdate
    IN IF missingRequired
       THEN Null
       ELSE [key \in SchemaKeys |->
                IF key \in DOMAIN copied
                THEN copied[key]
                ELSE IF recipeSchema[key].type = "array"
                     THEN Arr(<<>>)
                     ELSE Str(<<>>)]

\* getRecipes() of the earlier service: the parsed file
getRecipesEarlier(file) == file

\* r.name.toLowerCase().trim(), the key addRecipe compares by
LowerTrim(s) == trim(toLowerCase(s))

\* r.name.toLowerCase() === recipeName.toLowerCase(): no trim
SameNameEarlier(r, name) == toLowerCase(r["name"].s) = toLowerCase(name)

FindIndexEarlier(recipes, name) ==
    IF \E i \in 1..Len(recipes) : SameNameEarlier(recipes[i], name)
    THEN CHOOSE i \in 1..Len(recipes) :
             /\ SameNameEarlier(recipes[i], name)
             /\ \A j \in 1..(i - 1) : ~SameNameEarlier(recipes[j], name)
    ELSE 0

RECURSIVE FilterOutEarlier(_, _)
FilterOutEarlier(recipes, name) ==
    IF recipes = <<>> THEN <<>>
    ELSE IF SameNameEarlier(Head(recipes), name)
         THEN FilterOutEarlier(Tail(recipes), name)
         ELSE <<Head(recipes)>> \o FilterOutEarlier(Tail(recipes), name)

\* validatedRecipe.id = recipes.length + 1
NextId(recipes) == Len(recipes) + 1

addRecipeEarlier(file, recipe, saveOk) ==
    LET validatedRecipe == validateRecipeEarlier(recipe, FALSE)
        recipes == getRecipesEarlier(file)
        recipeNames == {LowerTrim(recipes[i]["name"].s) : i \in 1..Len(recipes)}
    IN IF validatedRecipe = Null
       THEN Returned(file, "invalid", "false")
       ELSE IF LowerTrim(validatedRecipe["name"].s) \in recipeNames
       THEN Returned(file, "duplicate", "false")
       ELSE saveRecipes(
                file,
                Append(recipes,
                       Spread(validatedRecipe,
                              [k \in {"id"} |-> Num(NextId(recipes))])),
                saveOk)

updateRecipeEarlier(file, recipeName, updatedRecipe, saveOk) ==
    LET recipes == getRecipesEarlier(file)
        index == FindIndexEarlier(recipes, recipeName)
        validatedUpdate == validateRecipeEarlier(updatedRecipe, TRUE)
    IN IF index = 0
       THEN Returned(file, "notfound", "false")
       ELSE IF validatedUpdate = Null
       THEN Returned(file, "invalid", "false")
       ELSE saveRecipes(
                file,
                [recipes EXCEPT ![index] = Spread(recipes[index], validatedUpdate)],
                saveOk)

deleteRecipeEarlier(file, recipeName, saveOk) ==
    LET recipes == getRecipesEarlier(file)
        updatedRecipes == FilterOutEarlier(recipes, recipeName)
    IN IF Len(updatedRecipes) = Len(recipes)
       THEN Returned(file, "notfound", "false")
       ELSE saveRecipes(file, updatedRecipes, saveOk)

AddEarlier ==
    \E recipe \in Candidates :
        /\ addRecipeEarlier(store, recipe, TRUE).wrote => Len(store) < MaxRecipes
        /\ \E saveOk \in WriteOutcomes(addRecipeEarlier(store, recipe, TRUE)) :
               Ran("add", addRecipeEarlier(store, recipe, saveOk), recipe)

DeleteEarlier ==
    \E recipeName \in RecipeNames :
        \E saveOk \in WriteOutcomes(deleteRecipeEarlier(store, recipeName, TRUE)) :
            Ran("delete", deleteRecipeEarlier(store, recipeName, saveOk), <<>>)

\* the sequences of add and delete calls of the earlier service
NextEarlier == AddEarlier \/ DeleteEarlier

SpecEarlier == Init /\ [][NextEarlier]_vars

----------------------------------------------------------------------------
(* The storage backends: FileStorage (fileStorage.js) and DBStorage        *)
(* (dbStorage.js), one step per awaited call, and the service's getRecipes *)
(* and saveRecipes (index.js lines 85-100) that call them                  *)

\* two stored recipes
Pasta ==
    validateRecipe(
        MkObject(Str(NameA), GoodIngredients, GoodInstructions,
                 Absent, Absent, Absent),
        FALSE)
Salad ==
    validateRecipe(
        MkObject(Str(NameB), GoodIngredients, GoodInstructions,
                 GoodCategory, GoodTags, Absent),
        FALSE)

\* what the backing file may parse to
JsonValues == {Arr(<<>>), Arr(<<Pasta>>), JsObject, JsNull, Str(<<>>), Num(7)}

\* what the backing file may hold when the service starts
FileContents == {Missing, Malformed} \cup {Json(v) : v \in JsonValues}

\* what the database collection may hold when the service starts
DbContents == {<<>>, <<Pasta>>}

\* the collections handed to saveRecipes
SaveArgs == {<<>>, <<Pasta>>, <<Salad>>, <<Pasta, Salad>>}

\* what a backend of the Storage interface may resolve getRecipes to
BackendValues == JsonValues \cup {Undefined}

InitStorage ==
    /\ ServiceAtRest
    /\ StorageAtRest
    /\ disk \in FileContents
    /\ db \in DbContents
    /\ atCall = Contents
    /\ validation = NoValidation
    /\ RaceAtRest

\* no call is in progress
Free == pc \in {"idle", "done", "failed"}

\* a call begins at position `first`
Begin(backend, fn, arg, first) ==
    /\ Free
    /\ call' = [backend |-> backend, fn |-> fn, arg |-> arg]
    /\ pc' = first
    /\ result' = Undefined
    /\ closes' = 0
    /\ listed' = Undefined
    /\ fault' = "none"
    /\ atCall' = Contents
    /\ persisted' = IF fn = "saveRecipes"
                    THEN [persisted EXCEPT ![backend] = Undefined]
                    ELSE persisted
    /\ UNCHANGED <<disk, db, serviceVars, validation, raceVars>>

\* getRecipes() of the service calls storage.getRecipes() of the backend
CallGetRecipes ==
    \/ Begin("file", "getRecipes", <<>>, "readFile")
    \/ Begin("db", "getRecipes", <<>>, "connect")

\* saveRecipes(recipes) of the service calls storage.saveRecipes(recipes)
CallSaveRecipes ==
    \E recipes \in SaveArgs :
        \/ Begin("file", "saveRecipes", recipes, "writeFile")
        \/ Begin("db", "saveRecipes", recipes, "connect")

\* another implementation of the Storage interface resolves getRecipes to v
CallOtherBackend ==
    \E v \in BackendValues :
        /\ Free
        /\ call' = [backend |-> "other", fn |-> "getRecipes", arg |-> <<>>]
        /\ pc' = "returned"
        /\ result' = v
        /\ closes' = 0
        /\ listed' = Undefined
        /\ fault' = "none"
        /\ atCall' = Contents
        /\ UNCHANGED <<disk, db, persisted, serviceVars, validation, raceVars>>

\* the mutant leaves the try statement without running a finally block
LeaveWithoutFinally(backend) == "returned"

\* where a return inside try or catch goes: DBStorage's methods have a finally
\* block that runs first, FileStorage's return at once
Leave(backend) == IF backend = "db" THEN "finally" ELSE "returned"

\* the call has returned true from saveRecipes: the backend holds `recipes`
Settled(next, value, recipes) ==
    IF next = "returned" /\ call.fn = "saveRecipes" /\ value = True
    THEN [persisted EXCEPT ![call.backend] = Arr(recipes)]
    ELSE persisted

\* one step of the call, to position `next` with the value `value` pending;
\* a step that goes to the catch block is the step that failed
Step(next, value) ==
    /\ pc' = next
    /\ result' = value
    /\ fault' = IF next = "catch" THEN pc ELSE fault
    /\ persisted' = Settled(next, value, call.arg)
    /\ UNCHANGED <<call, closes, listed, atCall, serviceVars, validation, raceVars>>

\* await fs.readFile(filePath, "utf-8"): rejects when there is no file, and
\* may reject when there is one
FileReadFile ==
    /\ pc = "readFile"
    /\ \E ok \in BOOLEAN :
           /\ ok => disk.kind # "missing"
           /\ Step(IF ok THEN "parse" ELSE "catch", result)
    /\ UNCHANGED <<disk, db>>

\* return JSON.parse(data): throws on malformed text, returns the parsed
\* value otherwise
FileParse ==
    /\ pc = "parse"
    /\ IF disk.kind = "json"
       THEN Step(Leave(call.backend), disk.v)
       ELSE Step("catch", result)
    /\ UNCHANGED <<disk, db>>

\* JSON.stringify of a collection: per record the members "key": value of
\* the keys it owns; a member whose value is undefined is left out
JSONstringify(recipes) ==
    [i \in 1..Len(recipes) |->
        {<<k, recipes[i][k]>> :
            k \in {x \in DOMAIN recipes[i] : recipes[i][x].t # "undefined"}}]

\* JSON.parse of such a text: per record the object that owns the members' keys
JSONparse(text) ==
    Arr([i \in 1..Len(text) |->
            [k \in {m[1] : m \in text[i]} |->
                (CHOOSE m \in text[i] : m[1] = k)[2]]])

\* await fs.writeFile(filePath, JSON.stringify(recipes, null, 2)); return true
FileWriteFile ==
    /\ pc = "writeFile"
    /\ \E ok \in BOOLEAN :
           IF ok
           THEN /\ disk' = Json(JSONparse(JSONstringify(call.arg)))
                /\ Step(Leave(call.backend), True)
           ELSE /\ disk' = disk
                /\ Step("catch", result)
    /\ db' = db

\* await this.client.connect()
DBConnect ==
    /\ pc = "connect"
    /\ \E ok \in BOOLEAN :
           Step(IF ~ok THEN "catch"
                ELSE IF call.fn = "getRecipes" THEN "find" ELSE "deleteMany",
                result)
    /\ UNCHANGED <<disk, db>>

\* return await this.collection.find().toArray()
DBFind ==
    /\ pc = "find"
    /\ \E ok \in BOOLEAN :
           IF ok THEN Step(Leave(call.backend), Arr(db)) ELSE Step("catch", result)
    /\ UNCHANGED <<disk, db>>

\* the mutant deletes nothing
DeletedNone(docs) == docs

\* what deleteMany({}) leaves of the documents: the empty filter matches all
Deleted(docs) == <<>>

\* what insertMany(recipes) makes of the documents: the new ones are added
Inserted(docs, recipes) == docs \o recipes

\* await this.collection.deleteMany({})
DBDeleteMany ==
    /\ pc = "deleteMany"
    /\ \E ok \in BOOLEAN :
           IF ok
           THEN db' = Deleted(db) /\ Step("insertMany", result)
           ELSE db' = db /\ Step("catch", result)
    /\ disk' = disk

\* await this.collection.insertMany(recipes); return true: the documents
\* are added to those the collection holds
DBInsertMany ==
    /\ pc = "insertMany"
    /\ \E ok \in BOOLEAN :
           IF ok
           THEN db' = Inserted(db, call.arg) /\ Step(Leave(call.backend), True)
           ELSE db' = db /\ Step("catch", result)
    /\ disk' = disk

\* catch (error) { return [] } of getRecipes, { return false } of saveRecipes
Catch ==
    /\ pc = "catch"
    /\ Step(Leave(call.backend),
            IF call.fn = "getRecipes" THEN Arr(<<>>) ELSE False)
    /\ UNCHANGED <<disk, db>>

\* finally { await this.client.close() }: the pending value is returned when
\* close resolves; when close rejects, the call rejects with its error
DBClose ==
    /\ pc = "finally"
    /\ closes' = closes + 1
    /\ \E ok \in BOOLEAN :
           /\ pc' = IF ok THEN "returned" ELSE "raised"
           /\ result' = IF ok THEN result ELSE Undefined
           /\ fault' = IF ok THEN fault ELSE "finally"
           /\ persisted' = Settled(IF ok THEN "returned" ELSE "raised",
                                   result, call.arg)
    /\ UNCHANGED <<disk, db, call, listed, atCall, serviceVars, validation, raceVars>>

\* the backend's promise resolved: getRecipes of the service returns
\* Array.isArray(data) ? data : [], saveRecipes returns the backend's value
ServiceReturn ==
    /\ pc = "returned"
    /\ pc' = "done"
    /\ listed' = IF call.fn = "getRecipes" THEN ArrayOrEmpty(result) ELSE result
    /\ UNCHANGED <<disk, db, call, result, closes, fault, atCall, persisted,
                   serviceVars, validation, raceVars>>

\* the backend's promise rejected: the await of the service rethrows
ServiceRethrow ==
    /\ pc = "raised"
    /\ pc' = "failed"
    /\ UNCHANGED <<disk, db, call, result, closes, listed, fault, atCall,
                   persisted, serviceVars, validation, raceVars>>

NextStorage ==
    \/ CallGetRecipes
    \/ CallSaveRecipes
    \/ CallOtherBackend
    \/ FileReadFile
    \/ FileParse
    \/ FileWriteFile
    \/ DBConnect
    \/ DBFind
    \/ DBDeleteMany
    \/ DBInsertMany
    \/ Catch
    \/ DBClose
    \/ ServiceReturn
    \/ ServiceRethrow

SpecStorage == InitStorage /\ [][NextStorage]_vars

----------------------------------------------------------------------------
(* validateRecipe as the module exports it (index.js line 186)             *)

InitValidate ==
    /\ ServiceAtRest
    /\ StorageAtRest
    /\ disk = Json(Arr(<<>>))
    /\ db = <<>>
    /\ atCall = Contents
    /\ validation = NoValidation
    /\ RaceAtRest

\* a caller validates a recipe, as a new recipe or as an update
Validate ==
    \E recipe \in AllObjects, isUpdate \in BOOLEAN :
        /\ validation' = [ran |-> TRUE, recipe |-> recipe, isUpdate |-> isUpdate,
                          validated |-> validateRecipe(recipe, isUpdate)]
        /\ UNCHANGED <<serviceVars, storageVars, raceVars>>

NextValidate == Validate

SpecValidate == InitValidate /\ [][NextValidate]_vars

----------------------------------------------------------------------------
(* Concurrent callers of addRecipe (index.js lines 112-127) over one       *)
(* backend.  A caller runs from one await to the next without interruption *)
(* and the callers interleave at the awaited I/O: readFile and writeFile   *)
(* of the file backend; connect, find, deleteMany, insertMany and close of *)
(* the database backend, whose methods share the one client.               *)

\* the recipes the callers add
RaceRecipes ==
    {MkObject(Str(n), GoodIngredients, GoodInstructions, Absent, Absent, Absent) :
        n \in RecipeNames}

\* what the backend may hold when the callers start
RaceContents == {<<>>, <<Salad>>}

InitRace ==
    /\ ServiceAtRest
    /\ StorageAtRest
    /\ \E held \in RaceContents :
           /\ disk = Json(Arr(held))
           /\ db = held
    /\ atCall = Contents
    /\ validation = NoValidation
    /\ useDb \in BOOLEAN
    /\ client = "closed"
    /\ procs = [p \in Callers |-> NotCalled]

\* the mutant adds the recipes to those the file holds
FileAppended(held, recipes) ==
    IF held.kind = "json" /\ IsArray(held.v)
    THEN Json(Arr(held.v.s \o recipes))
    ELSE Json(Arr(recipes))

\* the file after writeFile(filePath, JSON.stringify(recipes)): the text of
\* the recipes, whatever it held
FileWritten(held, recipes) == Json(JSONparse(JSONstringify(recipes)))

\* the caller is given `value` and is done
Given(proc, value) == [proc EXCEPT !.pc = "done", !.ret = value]

\* getRecipes has resolved to `data`: addRecipe runs on to its return, or to
\* the backend's saveRecipes with the collection to save
Resumed(proc, data) ==
    LET recipes == ArrayOrEmpty(data).s
        outcome == addRecipe(recipes, proc.recipe, TRUE)
    IN IF outcome.wrote
       THEN [proc EXCEPT !.recipes = recipes,
                         !.toSave = outcome.store,
                         !.pending = Undefined,
                         !.pc = IF useDb THEN "saveConnect" ELSE "writeFile"]
       ELSE Given([proc EXCEPT !.recipes = recipes, !.pending = Undefined],
                  outcome.ret)

\* the callers leave alone what the other specifications speak of
RaceFrame ==
    UNCHANGED <<serviceVars, validation, call, pc, result, closes, listed,
                fault, atCall, persisted>>

\* addRecipe(recipe): await getRecipes()
RaceCall(p) ==
    /\ procs[p].pc = "start"
    /\ \E recipe \in RaceRecipes :
           procs' = [procs EXCEPT ![p] =
                        [@ EXCEPT !.recipe = recipe,
                                  !.pc = IF useDb THEN "getConnect"
                                                  ELSE "readFile"]]
    /\ UNCHANGED <<useDb, client, disk, db>>
    /\ RaceFrame

\* FileStorage.getRecipes: readFile and JSON.parse, [] when either fails
RaceReadFile(p) ==
    /\ procs[p].pc = "readFile"
    /\ \E ok \in BOOLEAN :
           procs' = [procs EXCEPT ![p] =
                        Resumed(@, IF ok /\ disk.kind = "json"
                                   THEN disk.v ELSE Arr(<<>>))]
    /\ UNCHANGED <<useDb, client, disk, db>>
    /\ RaceFrame

\* FileStorage.saveRecipes: writeFile, true when it resolves and false when
\* it rejects
RaceWriteFile(p) ==
    /\ procs[p].pc = "writeFile"
    /\ \E ok \in BOOLEAN :
           /\ disk' = IF ok THEN FileWritten(disk, procs[p].toSave) ELSE disk
           /\ procs' = [procs EXCEPT ![p] =
                           Given(@, IF ok THEN "true" ELSE "false")]
    /\ UNCHANGED <<useDb, client, db>>
    /\ RaceFrame

\* await this.client.connect(), of getRecipes and of saveRecipes
RaceConnect(p) ==
    /\ procs[p].pc \in {"getConnect", "saveConnect"}
    /\ \E ok \in BOOLEAN :
           /\ client' = IF ok THEN "open" ELSE client
           /\ procs' = [procs EXCEPT ![p] =
                  IF procs[p].pc = "getConnect"
                  THEN IF ok THEN [@ EXCEPT !.pc = "find"]
                       ELSE [@ EXCEPT !.pc = "getClose", !.pending = Arr(<<>>)]
                  ELSE IF ok THEN [@ EXCEPT !.pc = "deleteMany"]
                       ELSE [@ EXCEPT !.pc = "saveClose", !.pending = False]]
    /\ UNCHANGED <<useDb, disk, db>>
    /\ RaceFrame

\* return await this.collection.find().toArray()
RaceFind(p) ==
    /\ procs[p].pc = "find"
    /\ \E ok \in BOOLEAN :
           procs' = [procs EXCEPT ![p] =
                        [@ EXCEPT !.pc = "getClose",
                                  !.pending = IF ok THEN Arr(db) ELSE Arr(<<>>)]]
    /\ UNCHANGED <<useDb, client, disk, db>>
    /\ RaceFrame

\* await this.collection.deleteMany({})
RaceDeleteMany(p) ==
    /\ procs[p].pc = "deleteMany"
    /\ \E ok \in BOOLEAN :
           /\ db' = IF ok THEN Deleted(db) ELSE db
           /\ procs' = [procs EXCEPT ![p] =
                  IF ok THEN [@ EXCEPT !.pc = "insertMany"]
                  ELSE [@ EXCEPT !.pc = "saveClose", !.pending = False]]
    /\ UNCHANGED <<useDb, client, disk>>
    /\ RaceFrame

\* await this.collection.insertMany(recipes); return true
RaceInsertMany(p) ==
    /\ procs[p].pc = "insertMany"
    /\ \E ok \in BOOLEAN :
           /\ db' = IF ok THEN Inserted(db, procs[p].toSave) ELSE db
           /\ procs' = [procs EXCEPT ![p] =
                  [@ EXCEPT !.pc = "saveClose",
                            !.pending = IF ok THEN True ELSE False]]
    /\ UNCHANGED <<useDb, client, disk>>
    /\ RaceFrame

\* finally { await this.client.close() }: the one client is closed, whoever
\* else is using it; the pending value is returned, or close's error raised
RaceClose(p) ==
    /\ procs[p].pc \in {"getClose", "saveClose"}
    /\ \E ok \in BOOLEAN :
           /\ client' = IF ok THEN "closed" ELSE client
           /\ procs' = [procs EXCEPT ![p] =
                  IF ~ok THEN Given(@, "throw")
                  ELSE IF procs[p].pc = "getClose"
                  THEN Resumed(@, procs[p].pending)
                  ELSE Given(@, IF procs[p].pending = True
                                THEN "true" ELSE "false")]
    /\ UNCHANGED <<useDb, disk, db>>
    /\ RaceFrame

NextRace ==
    \/ \E p \in Callers : RaceCall(p)
    \/ \E p \in Callers : RaceReadFile(p)
    \/ \E p \in Callers : RaceWriteFile(p)
    \/ \E p \in Callers : RaceConnect(p)
    \/ \E p \in Callers : RaceFind(p)
    \/ \E p \in Callers : RaceDeleteMany(p)
    \/ \E p \in Callers : RaceInsertMany(p)
    \/ \E p \in Callers : RaceClose(p)

SpecRace == InitRace /\ [][NextRace]_vars

----------------------------------------------------------------------------
(* What the claims speak of *)

\* the record a successful add appended
Last(recipes) == recipes[Len(recipes)]

\* the recipe's name is a string and some recipe of the collection has the same
\* name once both are trimmed and lower-cased
NameTaken(recipes, recipe) ==
    /\ "name" \in DOMAIN recipe
    /\ recipe["name"].t = "string"
    /\ \E i \in 1..Len(recipes) :
           toLowerCase(trim(recipes[i]["name"].s))
               = toLowerCase(trim(recipe["name"].s))

----------------------------------------------------------------------------
(* C1: no two stored recipes have names that are equal after trimming and  *)
(* lower-casing, whatever adds, updates and deletes have completed.        *)
C1_NoDuplicateNames ==
    \A i, j \in 1..Len(store) :
        i < j => toLowerCase(trim(store[i]["name"].s))
                     # toLowerCase(trim(store[j]["name"].s))

(* C2: on every collection the service can hold, an add whose candidate's  *)
(* name, trimmed and lower-cased, equals that of a stored recipe returns   *)
(* false, does not persist and leaves the collection as it was.            *)
C2_DuplicateAddRejected ==
    \A recipe \in Candidates, saveOk \in BOOLEAN :
        NameTaken(store, recipe) =>
            LET after == addRecipe(store, recipe, saveOk)
            IN /\ after.ret = "false"
               /\ ~after.wrote
               /\ after.store = store

\* a duplicate add has just been turned away from a collection that has recipes
C2_Witness ==
    /\ op = "add"
    /\ exit = "duplicate"
    /\ ret = "false"
    /\ ~wrote
    /\ store # <<>>

(* C3: a successful add stores the new record with an id equal to the      *)
(* number of records before the add plus one.                              *)
C3_AddAssignsNextId ==
    [][(op' = "add" /\ ret' = "true") =>
          /\ Len(store') = Len(store) + 1
          /\ "id" \in DOMAIN Last(store')
          /\ Last(store')["id"] = Num(Len(store) + 1)]_vars

(* C4: an add never assigns an id that an earlier recipe was given, so the *)
(* ids of the stored recipes are pairwise distinct.                        *)
C4_IdsPairwiseDistinct ==
    \A i, j \in 1..Len(store) :
        i < j =>
            /\ "id" \in DOMAIN store[i]
            /\ "id" \in DOMAIN store[j]
            /\ store[i]["id"] # store[j]["id"]

(* C5: no stored record has a key other than id, name, ingredients,        *)
(* instructions, category and tags, whatever keys the arguments of add and *)
(* update carried.                                                         *)
C5_OnlySchemaKeysStored ==
    \A i \in 1..Len(store) :
        DOMAIN store[i] \subseteq
            {"id", "name", "ingredients", "instructions", "category", "tags"}

\* an update whose partial recipe carried maliciousField has just been stored
C5_Witness ==
    /\ op = "update"
    /\ ret = "true"
    /\ "maliciousField" \in foreign
    /\ store # <<>>

\* every schema key the recipe has holds a value of the schema's type, and
\* the required keys are there
WellTyped(recipe) ==
    /\ {"name", "ingredients", "instructions"} \subseteq DOMAIN recipe
    /\ \A k \in (DOMAIN recipe) \cap {"name", "instructions", "category"} :
           recipe[k].t = "string"
    /\ \A k \in (DOMAIN recipe) \cap {"ingredients", "tags"} :
           recipe[k].t = "array"

(* C6: after add(R) returns true for a correctly typed R, the collection   *)
(* holds a record with R's name, ingredients, instructions, category and   *)
(* tags that carries an assigned id.                                       *)
C6_AddRoundTrip ==
    [][\A recipe \in Candidates :
          (op' = "add" /\ ret' = "true" /\ WellTyped(recipe) /\ AddStep(recipe)) =>
              \E i \in 1..Len(store') :
                  /\ \A k \in (DOMAIN recipe) \cap SchemaKeys :
                         /\ k \in DOMAIN store'[i]
                         /\ store'[i][k] = recipe[k]
                  /\ "id" \in DOMAIN store'[i]]_vars

(* C7: an add whose candidate lacks name, ingredients or instructions      *)
(* returns false, raises nothing and writes nothing.                       *)
C7_MissingRequiredRejected ==
    [][\A recipe \in Candidates :
          (/\ op' = "add"
           /\ \E k \in {"name", "ingredients", "instructions"} : k \notin DOMAIN recipe
           /\ AddStep(recipe)) =>
              (ret' = "false" /\ ~wrote' /\ store' = store)]_vars

\* the key is in the recipe with a value of the other type
WrongTyped(recipe, k) ==
    /\ k \in DOMAIN recipe
    /\ IF k \in {"ingredients", "tags"}
       THEN recipe[k].t # "array"
       ELSE recipe[k].t # "string"

\* the zero value of the key's type
ZeroValue(k) == IF k \in {"ingredients", "tags"} THEN Arr(<<>>) ELSE Str(<<>>)

\* the name the record would be stored under: the candidate's, or "" for a
\* name of the wrong type
StoredName(recipe) ==
    IF recipe["name"].t = "string" THEN recipe["name"].s ELSE <<>>

(* C8: an add whose candidate has one schema field of the wrong type, all  *)
(* other fields valid and no duplicate name, does not fail: it reaches the *)
(* write, and the record it stores has the zero value in that field.       *)
C8_WrongTypeCoerced ==
    [][\A recipe \in Candidates :
          \A k \in SchemaKeys :
              (/\ op' = "add"
               /\ {"name", "ingredients", "instructions"} \subseteq DOMAIN recipe
               /\ WrongTyped(recipe, k)
               /\ \A other \in SchemaKeys \ {k} : ~WrongTyped(recipe, other)
               /\ \A i \in 1..Len(store) :
                      toLowerCase(trim(store[i]["name"].s))
                          # toLowerCase(trim(StoredName(recipe)))
               /\ AddStep(recipe)) =>
                  /\ exit' = "save"
                  /\ ret' = "true" => Last(store')[k] = ZeroValue(k)]_vars

(* C9: on every collection the service can hold, the record a successful   *)
(* add stores has the five schema fields; its category is the empty string *)
(* and its tags the empty sequence when the candidate left them out.       *)
C9_AddedRecordComplete ==
    \A recipe \in Candidates, saveOk \in BOOLEAN :
        LET after == addRecipe(store, recipe, saveOk)
        IN after.ret = "true" =>
               /\ Len(after.store) = Len(store) + 1
               /\ {"name", "ingredients", "instructions", "category", "tags"}
                      \subseteq DOMAIN Last(after.store)
               /\ "category" \notin DOMAIN recipe
                      => Last(after.store)["category"] = Str(<<>>)
               /\ "tags" \notin DOMAIN recipe
                      => Last(after.store)["tags"] = Arr(<<>>)

\* a successful add has just stored a record whose category and tags are
\* the zero values and whose required fields are the candidate's
C9_Witness ==
    /\ op = "add"
    /\ ret = "true"
    /\ store # <<>>
    /\ Last(store)["category"] = Str(<<>>)
    /\ Last(store)["tags"] = Arr(<<>>)
    /\ Last(store)["ingredients"] = GoodIngredients
    /\ Last(store)["instructions"] = GoodInstructions
    /\ Last(store)["name"] = Str(NameB)

\* the first record whose trimmed, lower-cased name is that of the name given
Target(recipes, name) ==
    CHOOSE i \in 1..Len(recipes) :
        /\ toLowerCase(trim(recipes[i]["name"].s)) = toLowerCase(trim(name))
        /\ \A j \in 1..(i - 1) :
               toLowerCase(trim(recipes[j]["name"].s)) # toLowerCase(trim(name))

\* the partial supplies the schema key with a value of the schema's type
Supplies(partial, k) == k \in DOMAIN partial /\ ~WrongTyped(partial, k)

\* what a successful update(name, partial) may change, and what it may not
UpdateFrame(before, after, name, partial) ==
    /\ Len(after) = Len(before)
    /\ \A i \in 1..Len(before) :
           IF i = Target(before, name)
           THEN /\ DOMAIN after[i] =
                       (DOMAIN before[i]) \cup
                           {k \in SchemaKeys : Supplies(partial, k)}
                /\ \A k \in DOMAIN after[i] :
                       IF k \in SchemaKeys /\ Supplies(partial, k)
                       THEN after[i][k] = partial[k]
                       ELSE after[i][k] = before[i][k]
           ELSE after[i] = before[i]

(* C10: on every collection the service can hold, a successful             *)
(* update(name, partial) sets each schema field that the partial supplies  *)
(* with the right type, keeps every other field of the target, and keeps   *)
(* every other record, the order and the length.                           *)
C10_UpdateFrame ==
    \A recipeName \in RecipeNames, updatedRecipe \in Partials, saveOk \in BOOLEAN :
        LET after == updateRecipe(store, recipeName, updatedRecipe, saveOk)
        IN after.ret = "true" =>
               UpdateFrame(store, after.store, recipeName, updatedRecipe)

\* an update has just succeeded on a collection of two recipes, one of which
\* has a category and neither tags nor a changed list of ingredients
C10_Witness ==
    /\ op = "update"
    /\ ret = "true"
    /\ Len(store) = 2
    /\ \E i \in 1..Len(store) :
           /\ store[i]["category"] = GoodCategory
           /\ store[i]["tags"] = Arr(<<>>)
           /\ store[i]["ingredients"] = GoodIngredients

\* some stored recipe has the name once both are trimmed and lower-cased
Stored(recipes, name) ==
    \E i \in 1..Len(recipes) :
        toLowerCase(trim(recipes[i]["name"].s)) = toLowerCase(trim(name))

\* the call answered false without asking the backend to write
Refused(before, after) ==
    after.ret = "false" /\ ~after.wrote /\ after.store = before

(* C11: on every collection the service can hold, update(name, partial)    *)
(* and delete(name) with a name that no stored recipe has (after trimming  *)
(* and lower-casing) return false, ask for no write and leave the          *)
(* collection as it was.                                                   *)
C11_NotFoundRejected ==
    \A recipeName \in RecipeNames :
        ~Stored(store, recipeName) =>
            /\ \A updatedRecipe \in Partials, saveOk \in BOOLEAN :
                   Refused(store,
                           updateRecipe(store, recipeName, updatedRecipe, saveOk))
            /\ \A saveOk \in BOOLEAN :
                   Refused(store, deleteRecipe(store, recipeName, saveOk))

\* an update of a name that is not stored has just been refused on a
\* collection that holds a recipe
C11_Witness ==
    /\ op = "update"
    /\ exit = "notfound"
    /\ ret = "false"
    /\ ~wrote
    /\ store # <<>>

\* the records whose name differs from the name given, in their order
Others(recipes, name) ==
    SelectSeq(recipes,
              LAMBDA r : toLowerCase(trim(r["name"].s)) # toLowerCase(trim(name)))

FailedWrite(before, after) ==
    after.wrote => (after.ret = "false" /\ after.store = before)

(* C13: on every collection the service can hold, an add, update or delete *)
(* that reaches the backend's write while the write fails returns false    *)
(* (not true, no exception) and the collection stays as it was.            *)
C13_WriteFailureReturnsFalse ==
    /\ \A recipe \in Candidates :
           FailedWrite(store, addRecipe(store, recipe, FALSE))
    /\ \A recipeName \in RecipeNames, updatedRecipe \in Partials :
           FailedWrite(store,
                       updateRecipe(store, recipeName, updatedRecipe, FALSE))
    /\ \A recipeName \in RecipeNames :
           FailedWrite(store, deleteRecipe(store, recipeName, FALSE))

\* an update has just asked the backend to write and the write failed
C13_Witness ==
    /\ op = "update"
    /\ wrote
    /\ ret = "false"
    /\ exit = "save"

\* the record has the same id as before: none, or the same value
SameId(before, after) ==
    /\ ("id" \in DOMAIN after) = ("id" \in DOMAIN before)
    /\ "id" \in DOMAIN before => after["id"] = before["id"]

(* C17: on every collection the service can hold, after a successful       *)
(* update(name, partial) the target record has the id and the name it had  *)
(* before, also when the partial carries a name.                           *)
C17_UpdateKeepsIdAndName ==
    \A recipeName \in RecipeNames, updatedRecipe \in Partials :
        LET after == updateRecipe(store, recipeName, updatedRecipe, TRUE)
        IN after.ret = "true" =>
               LET i == Target(store, recipeName)
               IN /\ after.store[i]["name"] = store[i]["name"]
                  /\ SameId(store[i], after.store[i])

(* C18: on every collection the service can hold, a successful             *)
(* update(name, partial) whose partial has a schema field of the wrong     *)
(* type leaves that field of the target record at its prior value.         *)
C18_WrongTypeDropped ==
    \A recipeName \in RecipeNames, updatedRecipe \in Partials :
        LET after == updateRecipe(store, recipeName, updatedRecipe, TRUE)
        IN after.ret = "true" =>
               \A k \in SchemaKeys :
                   WrongTyped(updatedRecipe, k) =>
                       LET i == Target(store, recipeName)
                       IN after.store[i][k] = store[i][k]

\* an update has just succeeded, and the collection holds a recipe whose
\* field is not the zero value and which an update with that field of the
\* wrong type succeeds on
C18_Witness ==
    /\ op = "update"
    /\ ret = "true"
    /\ \E recipeName \in RecipeNames, updatedRecipe \in Partials,
          k \in SchemaKeys :
           /\ WrongTyped(updatedRecipe, k)
           /\ updateRecipe(store, recipeName, updatedRecipe, TRUE).ret = "true"
           /\ store[Target(store, recipeName)][k] # ZeroValue(k)

(* C14: every getRecipes and saveRecipes call of the file backend and of   *)
(* the database backend gives its caller a value and never raises,         *)
(* whichever step fails: the read, the parse, the write, connect, the      *)
(* query, delete-all, insert or close.                                     *)
C14_BackendNeverRaises ==
    call.backend \in {"file", "db"} => pc # "raised"

(* C15: every getRecipes and saveRecipes call of the database backend has  *)
(* invoked close on the client by the time it returns or raises, on every  *)
(* path: success, failed connect, failed query, failed delete-all, failed  *)
(* insert.                                                                 *)
C15_CloseBeforeReturn ==
    (call.backend = "db" /\ pc \in {"returned", "raised", "done", "failed"})
        => closes >= 1

\* saveRecipes of the database backend has returned false after a failure,
\* with the client closed
C15_Witness ==
    /\ call.backend = "db"
    /\ call.fn = "saveRecipes"
    /\ pc = "returned"
    /\ result.t = "boolean"
    /\ result.n = 0
    /\ closes = 1

(* C16: getRecipes of the service gives its caller an array whatever the   *)
(* backend resolved to: the backend's array, and the empty array for null, *)
(* undefined, an object, a string or a number.                             *)
C16_ListIsAlwaysSequence ==
    (pc = "done" /\ call.fn = "getRecipes") =>
        /\ IsArray(listed)
        /\ IF IsArray(result) THEN listed.s = result.s ELSE listed.s = <<>>

\* the file backend resolved to an object and the service returned []
C16_Witness ==
    /\ pc = "done"
    /\ call.fn = "getRecipes"
    /\ call.backend = "file"
    /\ result.t = "object"
    /\ listed.t = "array"
    /\ listed.s = <<>>

(* C19: validateRecipe called with isUpdate = true does not fail and       *)
(* returns an object whose keys are the schema keys that its input has: a  *)
(* schema key missing from the input is missing from the result.           *)
C19_UpdateModeOmitsMissing ==
    (validation.ran /\ validation.isUpdate) =>
        /\ validation.validated # Null
        /\ DOMAIN validation.validated =
               (DOMAIN validation.recipe) \cap SchemaKeys

(* C20: getRecipes of the file backend returns the empty array whenever    *)
(* the backing file parses to something that is not an array.              *)
C20_FileListNonSequenceIsEmpty ==
    (/\ call.backend = "file"
     /\ call.fn = "getRecipes"
     /\ pc = "returned"
     /\ disk.kind = "json"
     /\ ~IsArray(disk.v)) =>
        (IsArray(result) /\ result.s = <<>>)

(* C21: on the file backend and on the database backend, a getRecipes in   *)
(* which no step fails, made after a saveRecipes(c) that returned true,    *)
(* returns exactly c: nothing of the prior contents is left and nothing is *)
(* appended to them.                                                       *)
C21_PersistThenList ==
    (/\ call.backend \in {"file", "db"}
     /\ call.fn = "getRecipes"
     /\ pc = "returned"
     /\ fault = "none"
     /\ IsArray(persisted[call.backend])) =>
        /\ IsArray(result)
        /\ result.s = persisted[call.backend].s

\* the database backend has listed, with no failed step, the one recipe of
\* the last saveRecipes that returned true
C21_Witness ==
    /\ call.backend = "db"
    /\ call.fn = "getRecipes"
    /\ pc = "returned"
    /\ fault = "none"
    /\ IsArray(persisted["db"])
    /\ persisted["db"].s = <<Salad>>
    /\ result.s = <<Salad>>

(* C22: a saveRecipes call that returns false leaves the file and the      *)
(* database collection exactly as they were when the call began, whichever *)
(* step failed.                                                            *)
C22_FailedPersistChangesNothing ==
    (/\ call.fn = "saveRecipes"
     /\ pc = "returned"
     /\ result.t = "boolean"
     /\ result.n = 0) =>
        Contents = atCall

\* what a getRecipes of the service returns now when none of its steps fails
Listable == IF useDb THEN db ELSE ArrayOrEmpty(disk.v).s

\* every caller has been given its answer
AllDone == \A p \in Callers : procs[p].pc = "done"

\* the name caller p adds
Adds(p) == procs[p].recipe["name"].s

\* the callers add names that differ pairwise after trimming and lower-casing,
\* all of them read the same collection (each read before any wrote), and all
\* of them were given true
AllRacedAndSucceeded ==
    /\ AllDone
    /\ \A p \in Callers : procs[p].ret = "true"
    /\ \A p, q \in Callers :
           /\ procs[p].recipes = procs[q].recipes
           /\ p # q => toLowerCase(trim(Adds(p))) # toLowerCase(trim(Adds(q)))

(* C23: on the file backend, when the addRecipe calls add distinct unused  *)
(* names, all read before any of them writes and all return true, the      *)
(* stored collection is what one of them saved: the collection they read   *)
(* plus that caller's record, and the records of the other callers are     *)
(* lost.                                                                   *)
C23_LostUpdate ==
    (~useDb /\ AllRacedAndSucceeded) =>
        \E p \in Callers :
            /\ Listable = procs[p].toSave
            /\ Len(Listable) = Len(procs[p].recipes) + 1
            /\ \A q \in Callers \ {p} : ~Stored(Listable, Adds(q))

\* on the file backend every caller has returned true after reading the same
\* collection, and the file holds one record more than they read
C23_Witness ==
    /\ ~useDb
    /\ AllRacedAndSucceeded
    /\ Len(Listable) = Len(procs[1].recipes) + 1
    /\ \E q \in Callers : ~Stored(Listable, Adds(q))

\* no two records of the collection have the same trimmed, lower-cased name
DistinctNames(recipes) ==
    \A i, j \in 1..Len(recipes) :
        i # j => toLowerCase(trim(recipes[i]["name"].s))
                     # toLowerCase(trim(recipes[j]["name"].s))

(* C24: once interleaved addRecipe calls have all returned true, the       *)
(* collection a getRecipes returns has pairwise distinct names after       *)
(* trimming and lower-casing, and is the collection that one of the calls  *)
(* saved.                                                                  *)
C24_RacedAddsKeepCollectionSound ==
    (AllDone /\ \A p \in Callers : procs[p].ret = "true") =>
        /\ DistinctNames(Listable)
        /\ \E p \in Callers : Listable = procs[p].toSave

(* C25: on the database backend, a caller that is about to run its query,  *)
(* delete-all or insert, after its own connect succeeded and before its    *)
(* own close, finds the client open: no other caller's close has been      *)
(* applied to it.                                                          *)
C25_StepsRunOnOpenConnection ==
    \A p \in Callers :
        procs[p].pc \in {"find", "deleteMany", "insertMany"} => client = "open"

====
